---- MODULE Spec2Model ----
(***************************************************************************)
(* Fraud detection service: synthetic corpus generator                     *)
(* (backend/data_generator.py), feature pipeline and Isolation Forest      *)
(* wrapper (backend/model.py) and the HTTP orchestration (backend/main.py).*)
(*                                                                         *)
(* Units: risk scores are in thousandths (0.7 is 700), decision-function   *)
(* values are in thousandths (-0.1 is -100), amounts are whole currency    *)
(* units.  Every handler of main.py is a coroutine without an await, so    *)
(* each request is one atomic step.                                        *)
(***************************************************************************)
EXTENDS Integers, Sequences, FiniteSets, TLC

(* ---------------- bounds of the model ---------------- *)
\* records per class in a generated corpus (the code asks for 10000 and 400)
NormalCount == 2
FraudCount == 2
\* period of the modelled numpy stream and of the modelled `random` stream
RngMod == 32
PyRngMod == 8

(* ---------------- generic helpers ---------------- *)
RECURSIVE SumSeq(_)
SumSeq(s) == IF s = <<>> THEN 0 ELSE Head(s) + SumSeq(Tail(s))

Abs(x) == IF x < 0 THEN -x ELSE x

RECURSIVE ISqrtBin(_, _, _)
ISqrtBin(v, lo, hi) ==
    IF lo >= hi THEN lo
    ELSE LET mid == (lo + hi + 1) \div 2
         IN IF mid * mid <= v THEN ISqrtBin(v, mid, hi) ELSE ISqrtBin(v, lo, mid - 1)

\* integer square root (floor), the model's rendering of numpy's sqrt
ISqrt(v) == ISqrtBin(v, 0, IF v > 46340 THEN 46340 ELSE v)

(* ---------------- the pseudo-random streams ---------------- *)
\* np.random.seed(seed): the process-wide numpy stream restarts at the seed
NpSeed(seed) == seed % RngMod
\* random.seed(seed): the process-wide `random` stream restarts at the seed
PySeed(seed) == seed % PyRngMod
\* one step of the numpy stream
NextRng(s) == (5 * s + 3) % RngMod
\* one step of the `random` stream
NextPyRng(s) == (5 * s + 3) % PyRngMod

RECURSIVE Adv(_, _)
Adv(s, k) == IF k = 0 THEN s ELSE Adv(NextRng(s), k - 1)

\* np.random.choice(seq): one element of seq, picked by the stream
Choice(seq, u) == seq[(u % Len(seq)) + 1]

\* np.random.randint(low, high): high is exclusive
RandInt(low, high, u) == low + (u % (high - low))

\* np.clip
Clip(x, lo, hi) == IF x < lo THEN lo ELSE IF x > hi THEN hi ELSE x

(* ---------------- distributions (representative outcomes) -------------- *)
\* Each continuous or count distribution is a table of representative
\* outcomes indexed by the stream; lognormal tables hold values below,
\* inside and above the clip interval applied by the caller.
LogNormal(mean10, u) ==
    CASE mean10 = 30 -> Choice(<<0, 20, 300, 60000>>, u)
      [] mean10 = 80 -> Choice(<<3000, 30000, 200000>>, u)
      [] mean10 = 40 -> Choice(<<50, 500, 20000>>, u)
      [] mean10 = 50 -> Choice(<<100, 1500, 30000>>, u)
      [] OTHER       -> Choice(<<10, 300, 8000>>, u)

\* int(np.random.gamma(shape, scale))
Gamma(shape, u) ==
    IF shape = 2 THEN Choice(<<0, 15, 400, 2000>>, u) ELSE Choice(<<3, 25, 200>>, u)

\* round(np.random.beta(a, b), 3), in thousandths
Beta(a, b, u) ==
    CASE a = 2 /\ b = 10 -> Choice(<<50, 150, 400>>, u)
      [] a = 3 /\ b = 8  -> Choice(<<100, 270, 600>>, u)
      [] a = 1 /\ b = 3  -> Choice(<<100, 250, 800>>, u)
      [] OTHER           -> Choice(<<150, 330, 900>>, u)

\* np.random.poisson(lam)
Poisson(lam, u) ==
    IF lam = 5 THEN Choice(<<2, 5, 9>>, u) ELSE Choice(<<4, 8, 14, 22>>, u)

\* round(np.random.uniform(0.7, 1.0), 3), in thousandths
Uniform(lo, hi, u) == lo + (u % (hi - lo))

(* ---------------- data_generator.py ---------------- *)
TransactionTypes == <<"purchase", "transfer", "withdrawal", "payment">>
FraudTypes == <<"high_amount", "late_night", "high_risk", "burst">>

\* one iteration of the loop of generate_normal_transactions: seven draws
GenNormalOne(s, i) ==
    LET u1 == s
        u2 == Adv(s, 1)
        u3 == Adv(s, 2)
        u4 == Adv(s, 3)
        u5 == Adv(s, 4)
        u6 == Adv(s, 5)
        u7 == Adv(s, 6)
    IN [rec |-> [transaction_id |-> <<"TXN", i>>,
                 amount |-> Clip(LogNormal(30, u1), 1, 50000),
                 transaction_type |-> Choice(TransactionTypes, u2),
                 account_age_days |-> Gamma(2, u3),
                 location_risk_score |-> Beta(2, 10, u4),
                 device_risk_score |-> Beta(3, 8, u5),
                 transaction_hour |-> u6 % 24,
                 past_transactions_24h |-> Poisson(5, u7),
                 is_anomaly |-> 0],
        rng |-> Adv(s, 7)]

\* transactions.append(transaction), with the stream as the iteration left it
AppendNormal(acc, one) == [recs |-> Append(acc.recs, one.rec), rng |-> one.rng]

\* the loop of generate_normal_transactions from iteration i on
RECURSIVE GenNormalFrom(_, _, _)
GenNormalFrom(acc, i, n) ==
    IF i > n THEN acc
    ELSE GenNormalFrom(AppendNormal(acc, GenNormalOne(acc.rng, i)), i + 1, n)

generate_normal_transactions(s, n) == GenNormalFrom([recs |-> <<>>, rng |-> s], 1, n)

\* the burst override of line 93, np.random.randint(20, 50), as read by
\* someone who takes the upper bound to be inclusive
BurstPastInclusive(u) == RandInt(20, 51, u)
\* the burst override of line 93
BurstPast(u) == RandInt(20, 50, u)

\* the archetype branch of generate_fraudulent_transactions (lines 64-93):
\* amount, type and hour, plus the overrides of high_risk and burst
FraudArchetype(ft, s) ==
    LET u1 == s
        u2 == Adv(s, 1)
        u3 == Adv(s, 2)
        u4 == Adv(s, 3)
        u5 == Adv(s, 4)
    IN CASE ft = "high_amount" ->
              [amount |-> Clip(LogNormal(80, u1), 10000, 100000),
               transaction_type |-> Choice(<<"transfer", "purchase">>, u2),
               transaction_hour |-> Choice(<<9, 10, 11, 12, 13, 14, 15, 16, 17, 18, 19, 20>>, u3),
               loc |-> 0, dev |-> 0, past |-> 0,
               calls |-> <<"lognormal", "choice", "choice">>, rng |-> Adv(s, 3)]
         [] ft = "late_night" ->
              [amount |-> Clip(LogNormal(40, u1), 100, 10000),
               transaction_type |-> Choice(<<"transfer", "withdrawal">>, u2),
               transaction_hour |-> Choice(<<0, 1, 2, 3, 4, 5, 22, 23>>, u3),
               loc |-> 0, dev |-> 0, past |-> 0,
               calls |-> <<"lognormal", "choice", "choice">>, rng |-> Adv(s, 3)]
         [] ft = "high_risk" ->
              [amount |-> Clip(LogNormal(50, u1), 500, 20000),
               transaction_type |-> Choice(<<"transfer", "purchase">>, u2),
               transaction_hour |-> u3 % 24,
               loc |-> Uniform(700, 1000, u4), dev |-> Uniform(700, 1000, u5), past |-> 0,
               calls |-> <<"lognormal", "choice", "choice", "uniform", "uniform">>,
               rng |-> Adv(s, 5)]
         [] OTHER ->
              [amount |-> Clip(LogNormal(35, u1), 50, 5000),
               transaction_type |-> Choice(<<"purchase", "payment">>, u2),
               transaction_hour |-> u3 % 24,
               loc |-> 0, dev |-> 0, past |-> BurstPast(u4),
               calls |-> <<"lognormal", "choice", "choice", "randint">>,
               rng |-> Adv(s, 4)]

\* the guard of line 100: the Poisson default applies to every archetype but burst
PoissonDefaultApplies(ft) == ft # "burst"

\* lines 103-116: the account age, then the record.  `log` is the list of
\* np.random calls the iteration made, kept for inspection.
FraudFinish(ft, a, loc, dev, past, calls, s, i) ==
    [rec |-> [transaction_id |-> <<"FRD", i>>,
              amount |-> a.amount,
              transaction_type |-> a.transaction_type,
              account_age_days |-> Gamma(1, s),
              location_risk_score |-> loc,
              device_risk_score |-> dev,
              transaction_hour |-> a.transaction_hour,
              past_transactions_24h |-> past,
              is_anomaly |-> 1],
     log |-> [fraud_type |-> ft, calls |-> calls \o <<"gamma">>,
              past_transactions_24h |-> past],
     rng |-> NextRng(s)]

\* lines 100-101: the Poisson default of past_transactions_24h
FraudPast(ft, a, loc, dev, calls, s, i) ==
    IF PoissonDefaultApplies(ft)
    THEN FraudFinish(ft, a, loc, dev, Poisson(8, s), calls \o <<"poisson">>, NextRng(s), i)
    ELSE FraudFinish(ft, a, loc, dev, a.past, calls, s, i)

\* lines 96-98: the default risk scores
FraudBase(ft, a, i) ==
    IF ft # "high_risk"
    THEN FraudPast(ft, a, Beta(1, 3, a.rng), Beta(1, 2, Adv(a.rng, 1)),
                   <<"choice">> \o a.calls \o <<"beta", "beta">>, Adv(a.rng, 2), i)
    ELSE FraudPast(ft, a, a.loc, a.dev, <<"choice">> \o a.calls, a.rng, i)

FraudOfType(ft, s, i) == FraudBase(ft, FraudArchetype(ft, s), i)

\* one iteration of the loop of generate_fraudulent_transactions
GenFraudOne(s, i) == FraudOfType(Choice(FraudTypes, s), NextRng(s), i)

\* transactions.append(transaction), with the stream as the iteration left it
AppendFraud(acc, one) ==
    [recs |-> Append(acc.recs, one.rec), logs |-> Append(acc.logs, one.log), rng |-> one.rng]

\* the loop of generate_fraudulent_transactions from iteration i on
RECURSIVE GenFraudFrom(_, _, _)
GenFraudFrom(acc, i, n) ==
    IF i > n THEN acc
    ELSE GenFraudFrom(AppendFraud(acc, GenFraudOne(acc.rng, i)), i + 1, n)

generate_fraudulent_transactions(s, n) ==
    GenFraudFrom([recs |-> <<>>, logs |-> <<>>, rng |-> s], 1, n)

Swap(seq, i, j) ==
    [k \in 1..Len(seq) |-> IF k = i THEN seq[j] ELSE IF k = j THEN seq[i] ELSE seq[k]]

\* np.random.shuffle: Fisher-Yates from the last position down, one draw each
RECURSIVE Shuffle(_, _, _)
Shuffle(seq, i, s) ==
    IF i <= 1 THEN [recs |-> seq, rng |-> s]
    ELSE Shuffle(Swap(seq, i, RandInt(0, i, s) + 1), i - 1, NextRng(s))

\* lines 129-137 of generate_dataset: combine, shuffle, build the frame
Combined(nrm, frd) == nrm.recs \o frd.recs
Shuffled(frd, all) == Shuffle(all, Len(all), frd.rng)
DatasetOf(frd, sh) == [df |-> sh.recs, logs |-> frd.logs, rng |-> sh.rng]
WithFraud(nrm, frd) == DatasetOf(frd, Shuffled(frd, Combined(nrm, frd)))
WithNormal(nrm) == WithFraud(nrm, generate_fraudulent_transactions(nrm.rng, FraudCount))

\* generate_dataset: reads the process-wide stream where the last caller
\* left it (the seed is applied by the constructor only)
generate_dataset(s) == WithNormal(generate_normal_transactions(s, NormalCount))

\* lines 143-151 of get_sample_transaction: filter, then pick one row
SampleFrom(g, sample_df) ==
    [sample |-> sample_df[RandInt(0, Len(sample_df), g.rng) + 1],
     df |-> g.df, logs |-> g.logs, rng |-> NextRng(g.rng)]

FilterClass(g, is_fraudulent) ==
    SampleFrom(g, CASE is_fraudulent = "True" -> SelectSeq(g.df, LAMBDA r : r.is_anomaly = 1)
                    [] is_fraudulent = "False" -> SelectSeq(g.df, LAMBDA r : r.is_anomaly = 0)
                    [] OTHER -> g.df)

\* get_sample_transaction: regenerates the corpus, filters, picks one row
GeneratorSample(s, is_fraudulent) == FilterClass(generate_dataset(s), is_fraudulent)

(* ---------------- model.py: feature pipeline ---------------- *)
\* a missing numeric value (float NaN); every comparison with it is false
NaN == -999999
IsNaN(x) == x = NaN
Gt(x, y) == ~IsNaN(x) /\ ~IsNaN(y) /\ x > y
Lt(x, y) == ~IsNaN(x) /\ ~IsNaN(y) /\ x < y

\* feature_columns of preprocess_features with the ground-truth label added
FeatureColumnsWithLabel ==
    <<"amount", "transaction_type_encoded", "account_age_days", "location_risk_score",
      "device_risk_score", "transaction_hour", "past_transactions_24h", "is_anomaly">>
\* feature_columns of preprocess_features (lines 34-42)
FeatureColumns ==
    <<"amount", "transaction_type_encoded", "account_age_days", "location_risk_score",
      "device_risk_score", "transaction_hour", "past_transactions_24h">>

\* the order LabelEncoder gives its classes (sorted), over every category
\* a record can carry
SortedTypes == <<"payment", "purchase", "refund", "transfer", "withdrawal">>

NoEncoder == [set |-> FALSE, fitted |-> FALSE, classes |-> <<>>]
NoScaler == [set |-> FALSE, fitted |-> FALSE, mean |-> <<>>, scale |-> <<>>]
NoForest == [set |-> FALSE, fitted |-> FALSE, key |-> 0]
NoX == [cols |-> <<>>, rows |-> <<>>]

\* FraudDetectionModel.__init__
NewModel ==
    [exists |-> TRUE, model |-> NoForest, scaler |-> NoScaler,
     label_encoder |-> NoEncoder, feature_columns |-> <<>>, is_trained |-> FALSE]
\* the module-level `model = None`
NoModel == [NewModel EXCEPT !.exists = FALSE]

\* LabelEncoder.fit: the sorted distinct values of the column
LabelEncoderFit(rows) ==
    [set |-> TRUE, fitted |-> TRUE,
     classes |-> SelectSeq(SortedTypes,
                           LAMBDA t : \E i \in 1..Len(rows) : rows[i].transaction_type = t)]

InSeq(seq, x) == \E i \in 1..Len(seq) : seq[i] = x
IndexOf(seq, x) == CHOOSE i \in 1..Len(seq) : seq[i] = x

\* LabelEncoder.transform of one value: its position among the classes
LabelEncoderTransform(enc, v) == IndexOf(enc.classes, v) - 1

\* the value of column col in a row of df_processed
Cell(row, code, col) == IF col = "transaction_type_encoded" THEN code ELSE row[col]

\* pandas column mean: missing values are skipped; all missing gives NaN
ColMean(rows, j) ==
    LET vals == SelectSeq([i \in 1..Len(rows) |-> rows[i][j]], LAMBDA v : ~IsNaN(v))
    IN IF vals = <<>> THEN NaN ELSE SumSeq(vals) \div Len(vals)

\* X.fillna(X.mean()): the mean is taken over the frame being processed
FillNaBatchMean(rows) ==
    [i \in 1..Len(rows) |->
        [j \in 1..Len(rows[i]) |->
            IF IsNaN(rows[i][j]) THEN ColMean(rows, j) ELSE rows[i][j]]]

\* the condition under which preprocess_features fits a new encoder, were
\* it to refit on every call
MustFitEncoderAlways(self) == TRUE
\* the condition under which preprocess_features fits a new encoder (line 23)
MustFitEncoder(self) == ~self.label_encoder.set

\* preprocess_features(self, df): df is a sequence of rows.  Returns the
\* frame X, the error raised ("" for none) and the object as it is left.
preprocess_features(self, rows) ==
    LET fitNow == MustFitEncoder(self)
        enc == IF fitNow THEN LabelEncoderFit(rows) ELSE self.label_encoder
        self1 == [self EXCEPT !.label_encoder = enc]
        unseen == \E i \in 1..Len(rows) : ~InSeq(enc.classes, rows[i].transaction_type)
        missing == \E j \in 1..Len(FeatureColumns) :
                       /\ FeatureColumns[j] # "transaction_type_encoded"
                       /\ \E i \in 1..Len(rows) : FeatureColumns[j] \notin DOMAIN rows[i]
        sel == [i \in 1..Len(rows) |->
                  [j \in 1..Len(FeatureColumns) |->
                      Cell(rows[i], LabelEncoderTransform(enc, rows[i].transaction_type),
                           FeatureColumns[j])]]
    IN IF ~enc.fitted THEN [raised |-> "not_fitted", X |-> NoX, self |-> self1]
       ELSE IF unseen THEN [raised |-> "unseen_label", X |-> NoX, self |-> self1]
       ELSE IF missing THEN [raised |-> "missing_column", X |-> NoX, self |-> self1]
       ELSE [raised |-> "", X |-> [cols |-> FeatureColumns, rows |-> FillNaBatchMean(sel)],
             self |-> self1]

(* ---------------- StandardScaler ---------------- *)
ColumnOf(rows, j) == [i \in 1..Len(rows) |-> rows[i][j]]

RECURSIVE MaxSeq(_)
MaxSeq(s) == IF s = <<>> THEN 0 ELSE LET m == MaxSeq(Tail(s)) IN IF Head(s) > m THEN Head(s) ELSE m

\* standard deviation of a column about its mean (population form, as
\* numpy computes it); deviations are pre-scaled to keep squares in range
StdDev(col, mean) ==
    LET dev == [i \in 1..Len(col) |-> Abs(col[i] - mean)]
        p == 1 + (MaxSeq(dev) \div 10000)
    IN p * ISqrt(SumSeq([i \in 1..Len(col) |-> (dev[i] \div p) * (dev[i] \div p)]) \div Len(col))

\* StandardScaler.fit: per-column mean and standard deviation, a zero
\* deviation replaced by 1
ScalerFit(rows) ==
    LET n == Len(rows)
        w == Len(rows[1])
        mean == [j \in 1..w |-> SumSeq(ColumnOf(rows, j)) \div n]
        sd == [j \in 1..w |-> StdDev(ColumnOf(rows, j), mean[j])]
    IN [set |-> TRUE, fitted |-> TRUE, mean |-> mean,
        scale |-> [j \in 1..w |-> IF sd[j] = 0 THEN 1 ELSE sd[j]]]

\* StandardScaler.transform, in thousandths of a standard deviation; NaN passes through
ScalerTransform(sc, rows) ==
    [i \in 1..Len(rows) |->
        [j \in 1..Len(rows[i]) |->
            IF IsNaN(rows[i][j]) THEN NaN
            ELSE ((rows[i][j] - sc.mean[j]) * 1000) \div sc.scale[j]]]

(* ---------------- IsolationForest (library) ---------------- *)
\* The forest is library code.  It is a deterministic function of the
\* training matrix (random_state is fixed) and of the scored vector; its
\* values are taken from a table that lies on both sides of, and on, each
\* breakpoint used by predict.
ScoreTable == <<-200, -100, -50, 0, 50, 100, 200>>

\* IsolationForest.fit
ForestFit(rows) ==
    [set |-> TRUE, fitted |-> TRUE,
     key |-> SumSeq([i \in 1..Len(rows) |-> SumSeq(rows[i])]) % Len(ScoreTable)]

\* IsolationForest.decision_function of one scaled vector
decision_function(f, x) ==
    ScoreTable[((SumSeq([j \in 1..Len(x) |-> (j + 1) * x[j]]) + f.key) % Len(ScoreTable)) + 1]

\* IsolationForest.predict, were zero counted as an outlier
SkPredictZeroOutlier(f, x) == IF decision_function(f, x) <= 0 THEN -1 ELSE 1
\* IsolationForest.predict: -1 where the decision function is negative
SkPredict(f, x) == IF decision_function(f, x) < 0 THEN -1 ELSE 1

HasNaN(rows) == \E i \in 1..Len(rows) : \E j \in 1..Len(rows[i]) : IsNaN(rows[i][j])

(* ---------------- model.py: train and predict ---------------- *)
\* the places where train, or the code of initialize_system around it, can
\* raise: corpus generation, the tail of preprocess_features, the scaler
\* fit, the forest fit, the training statistics after the fit (lines 80-89)
\* and the closing report of initialize_system (main.py lines 61-65)
FailPoints == {"none", "generate", "preprocess", "scale", "fit", "stats", "report"}

\* lines 79-91 of train: the statistics after the fit, then the return
TrainStats(X, self, fail) ==
    [self |-> self, raised |-> IF fail = "stats" THEN "stats" ELSE "", X |-> X]

\* lines 66-77 of train: the forest is created, fitted, is_trained is set
TrainForest(X, self, fail) ==
    IF fail = "fit" THEN [self |-> self, raised |-> "fit", X |-> X]
    ELSE TrainStats(X, [self EXCEPT !.model = ForestFit(ScalerTransform(self.scaler, X.rows)),
                                    !.is_trained = TRUE], fail)

\* lines 61-64 of train: the scaler is created and fitted
TrainScaler(X, self, fail) ==
    IF fail = "scale" THEN [self |-> self, raised |-> "scale", X |-> X]
    ELSE TrainForest(X, [self EXCEPT !.scaler = ScalerFit(X.rows),
                                     !.model = [NoForest EXCEPT !.set = TRUE]], fail)

\* line 59 of train, on return of preprocess_features
TrainPreprocessed(p, fail) ==
    IF p.raised # "" THEN [self |-> p.self, raised |-> p.raised, X |-> NoX]
    ELSE IF fail = "preprocess" THEN [self |-> p.self, raised |-> "preprocess", X |-> NoX]
    ELSE TrainScaler(p.X, [p.self EXCEPT !.feature_columns = p.X.cols,
                                         !.scaler = [NoScaler EXCEPT !.set = TRUE]], fail)

\* train(self, df): `fail` names the step that raises, if any
train(self, df, fail) == TrainPreprocessed(preprocess_features(self, df), fail)

\* the risk level breakpoints of predict with the lower one inclusive
RiskLevelInclusive(score) ==
    IF score <= -100 THEN "HIGH" ELSE IF score < 0 THEN "MEDIUM" ELSE "LOW"
\* the risk level of predict (lines 118-123)
RiskLevel(score) ==
    IF score < -100 THEN "HIGH" ELSE IF score < 0 THEN "MEDIUM" ELSE "LOW"

\* dict.get(key, default)
Get(row, key, default) == IF key \in DOMAIN row THEN row[key] ELSE default

\* " | ".join(explanations)
RECURSIVE Join(_, _)
Join(seq, sep) ==
    IF Len(seq) <= 1 THEN seq ELSE <<Head(seq), sep>> \o Join(Tail(seq), sep)

Separator == " | "

\* the account-age finding of _generate_explanation with the lines 159-165
\* in the other order
RiskFindingsAgeFirst(row) ==
    (IF Gt(Get(row, "amount", 0), 10000) THEN <<"High transaction amount">> ELSE <<>>)
    \o (IF Gt(Get(row, "location_risk_score", 0), 700) THEN <<"High location risk score">> ELSE <<>>)
    \o (IF Gt(Get(row, "device_risk_score", 0), 700) THEN <<"High device risk score">> ELSE <<>>)
    \o (IF Lt(Get(row, "transaction_hour", 0), 6) \/ Gt(Get(row, "transaction_hour", 0), 22)
        THEN <<"Unusual transaction time">> ELSE <<>>)
    \o (IF Lt(Get(row, "account_age_days", 0), 30) THEN <<"New account">> ELSE <<>>)
    \o (IF Gt(Get(row, "past_transactions_24h", 0), 20) THEN <<"High activity">> ELSE <<>>)
\* the risk-factor checks of _generate_explanation (lines 143-165)
RiskFindings(row) ==
    (IF Gt(Get(row, "amount", 0), 10000) THEN <<"High transaction amount">> ELSE <<>>)
    \o (IF Gt(Get(row, "location_risk_score", 0), 700) THEN <<"High location risk score">> ELSE <<>>)
    \o (IF Gt(Get(row, "device_risk_score", 0), 700) THEN <<"High device risk score">> ELSE <<>>)
    \o (IF Lt(Get(row, "transaction_hour", 0), 6) \/ Gt(Get(row, "transaction_hour", 0), 22)
        THEN <<"Unusual transaction time">> ELSE <<>>)
    \o (IF Gt(Get(row, "past_transactions_24h", 0), 20) THEN <<"High activity">> ELSE <<>>)
    \o (IF Lt(Get(row, "account_age_days", 0), 30) THEN <<"New account">> ELSE <<>>)

\* _generate_explanation(transaction_data, anomaly_score, prediction_label).
\* For a DataFrame argument the .get calls return columns, and the truth
\* value of a column comparison raises.
generate_explanation(data, score, label) ==
    IF label = "FRAUD"
    THEN IF data.kind = "frame"
         THEN [raised |-> "ambiguous_truth_value", text |-> <<>>]
         ELSE [raised |-> "",
               text |-> Join(<<"Transaction flagged as potentially fraudulent">>
                             \o RiskFindings(data.rows[1]), Separator)]
    ELSE [raised |-> "",
          text |-> Join(<<"Transaction appears normal">>
                        \o (IF score > 100 THEN <<"Low risk profile detected">> ELSE <<>>),
                        Separator)]

NoResult == [ok |-> FALSE, error |-> "", prediction |-> "", anomaly_score |-> 0,
             risk_level |-> "", explanation |-> <<>>]
Raise(e) == [NoResult EXCEPT !.error = e]

\* predict(self, transaction_data): data is a dict (one row) or a DataFrame.
\* Returns the result or the error raised, the object as it is left, and
\* the frame handed to the scaler (line 108) when that line is reached.
predict(self, data) ==
    IF ~self.is_trained THEN [self |-> self, out |-> Raise("not_trained"), X |-> NoX]
    ELSE LET p == preprocess_features(self, data.rows)
         IN IF p.raised # "" THEN [self |-> p.self, out |-> Raise(p.raised), X |-> NoX]
            ELSE LET xs == ScalerTransform(p.self.scaler, p.X.rows)
                     prediction == SkPredict(p.self.model, xs[1])
                     anomaly_score == decision_function(p.self.model, xs[1])
                     prediction_label == IF prediction = -1 THEN "FRAUD" ELSE "SAFE"
                     e == generate_explanation(data, anomaly_score, prediction_label)
                 IN IF HasNaN(xs)
                    THEN [self |-> p.self, out |-> Raise("input_contains_nan"), X |-> p.X]
                    ELSE IF e.raised # ""
                    THEN [self |-> p.self, out |-> Raise(e.raised), X |-> p.X]
                    ELSE [self |-> p.self,
                          out |-> [ok |-> TRUE, error |-> "",
                                   prediction |-> prediction_label,
                                   anomaly_score |-> anomaly_score,
                                   risk_level |-> RiskLevel(anomaly_score),
                                   explanation |-> e.text],
                          X |-> p.X]

(* ---------------- main.py: state ---------------- *)
VARIABLES
    rng,            \* the process-wide numpy stream (np.random)
    pyrng,          \* the process-wide stream of the `random` module
    data_generator, \* the global data_generator: is it set
    model,          \* the global model, a FraudDetectionModel or None
    http,           \* the response sent by the last step, when it was a request
    call,           \* the call of model.predict made by the last step, if any
    trainX,         \* the frame train handed to the scaler, when it got there
    trainOutcome,   \* "not_called", "raised" or "returned"
    firstCorpus,    \* what the first generate_dataset call for the seed returned
    lastCorpus,     \* what the latest generate_dataset call for the seed returned
    fraudLog,       \* np.random calls of the fraud records of the last corpus
    initFailed,     \* some run of initialize_system has raised
    initCompleted,  \* some run of initialize_system has run to its end
    initRun         \* what initialize_system did in the last step: "not_called",
                    \* "skipped" (early return), "generator_only" or "trained"

vars == <<rng, pyrng, data_generator, model, http, call, trainX, trainOutcome,
          firstCorpus, lastCorpus, fraudLog, initFailed, initCompleted, initRun>>

\* TransactionDataGenerator(seed=42) in initialize_system
SEED == 42

NoRow == <<>>
NoHttp == [kind |-> "none", code |-> 0, status |-> "", model_trained |-> FALSE,
           detail |-> "", body |-> NoResult, sample |-> NoRow]
NoCall == [made |-> FALSE, data |-> [kind |-> "dict", rows |-> <<>>], out |-> NoResult,
           X |-> NoX, before |-> NoModel, after |-> NoModel, trained |-> "not_called"]

\* the fitted state of a model object
Fitted(m) == [label_encoder |-> m.label_encoder, scaler |-> m.scaler, model |-> m.model,
              feature_columns |-> m.feature_columns, is_trained |-> m.is_trained]

Init ==
    /\ rng = 0
    /\ pyrng = 0
    /\ data_generator = FALSE
    /\ model = NoModel
    /\ http = NoHttp
    /\ call = NoCall
    /\ trainX = NoX
    /\ trainOutcome = "not_called"
    /\ firstCorpus = <<>>
    /\ lastCorpus = <<>>
    /\ fraudLog = <<>>
    /\ initFailed = FALSE
    /\ initCompleted = FALSE
    /\ initRun = "not_called"

\* an initialize_system without its early return: every request rebuilds
AlreadyInitializedNever == FALSE

\* the early return of initialize_system (line 38)
AlreadyInitialized == model.exists /\ data_generator

\* the steps of initialize_system that can raise in the current state: none
\* of them runs once the early return is taken
Failures == IF AlreadyInitialized THEN {"none"} ELSE FailPoints

\* lines 54-69 of initialize_system, on return of train
InitTrained(g, t, fail) ==
    [ran |-> TRUE, trainCalled |-> TRUE,
     raised |-> IF t.raised # "" THEN t.raised ELSE IF fail = "report" THEN "report" ELSE "",
     data_generator |-> TRUE, model |-> t.self,
     rng |-> g.rng, pyrng |-> PySeed(SEED), trainX |-> t.X,
     trainOutcome |-> IF t.raised # "" THEN "raised" ELSE "returned",
     firstCorpus |-> IF firstCorpus = <<>> THEN g.df ELSE firstCorpus,
     lastCorpus |-> g.df, fraudLog |-> g.logs]

InitGenerated(g, fail) == InitTrained(g, train(NewModel, g.df, fail), fail)

\* initialize_system(): the values it leaves behind and whether it raised.
\* `fail` names the step that raises, if any.
initialize_system(fail) ==
    IF AlreadyInitialized
    THEN [ran |-> FALSE, trainCalled |-> FALSE, raised |-> "", data_generator |-> data_generator, model |-> model,
          rng |-> rng, pyrng |-> pyrng, trainX |-> trainX, trainOutcome |-> trainOutcome,
          firstCorpus |-> firstCorpus, lastCorpus |-> lastCorpus, fraudLog |-> fraudLog]
    ELSE IF fail = "generate"
    THEN [ran |-> TRUE, trainCalled |-> FALSE, raised |-> "generate", data_generator |-> TRUE, model |-> model,
          rng |-> NpSeed(SEED), pyrng |-> PySeed(SEED), trainX |-> trainX,
          trainOutcome |-> trainOutcome, firstCorpus |-> firstCorpus,
          lastCorpus |-> lastCorpus, fraudLog |-> fraudLog]
    ELSE InitGenerated(generate_dataset(NpSeed(SEED)), fail)

\* what every handler does first: run initialize_system and keep its effects
Startup(i) ==
    /\ data_generator' = i.data_generator
    /\ trainX' = i.trainX
    /\ trainOutcome' = i.trainOutcome
    /\ initFailed' = (initFailed \/ (i.ran /\ i.raised # ""))
    /\ initCompleted' = (initCompleted \/ (i.ran /\ i.raised = ""))
    /\ initRun' = IF ~i.ran THEN "skipped"
                  ELSE IF i.trainCalled THEN "trained" ELSE "generator_only"

(* ---------------- main.py: handlers ---------------- *)
\* GET /health
health_check(fail) ==
    \E i \in {initialize_system(fail)} :
       /\ Startup(i)
       /\ model' = i.model
       /\ rng' = i.rng
       /\ pyrng' = i.pyrng
       /\ firstCorpus' = i.firstCorpus
       /\ lastCorpus' = i.lastCorpus
       /\ fraudLog' = i.fraudLog
       /\ http' = IF i.raised # ""
                  THEN [NoHttp EXCEPT !.kind = "health", !.code = 200, !.status = "unhealthy",
                                      !.detail = "Initialization error"]
                  ELSE IF ~i.model.exists \/ ~i.model.is_trained
                  THEN [NoHttp EXCEPT !.kind = "health", !.code = 200, !.status = "unhealthy",
                                      !.detail = "Model not trained"]
                  ELSE [NoHttp EXCEPT !.kind = "health", !.code = 200, !.status = "healthy",
                                      !.model_trained = TRUE]
       /\ call' = NoCall

\* dict.pop(key, None)
Pop(row, key) == [k \in (DOMAIN row) \ {key} |-> row[k]]

\* GET /sample-transaction
get_sample_transaction(fail) ==
    \E i \in {initialize_system(fail)} :
    \E g \in {GeneratorSample(i.rng, Choice(<<"None", "None", "None", "True", "False">>, i.pyrng))} :
       /\ Startup(i)
       /\ model' = i.model
       /\ IF i.raised # ""
          THEN /\ rng' = i.rng
               /\ pyrng' = i.pyrng
               /\ firstCorpus' = i.firstCorpus
               /\ lastCorpus' = i.lastCorpus
               /\ fraudLog' = i.fraudLog
               /\ http' = [NoHttp EXCEPT !.kind = "sample", !.code = 500,
                                         !.detail = "System initialization failed"]
          ELSE /\ rng' = g.rng
               /\ pyrng' = NextPyRng(i.pyrng)
               /\ firstCorpus' = i.firstCorpus
               /\ lastCorpus' = g.df
               /\ fraudLog' = g.logs
               /\ http' = [NoHttp EXCEPT !.kind = "sample", !.code = 200,
                                         !.sample = Pop(g.sample, "is_anomaly")]
       /\ call' = NoCall

\* the record of a call of model.predict
CallOf(m, data, r, outcome) ==
    [made |-> TRUE, data |-> data, out |-> r.out, X |-> r.X,
     before |-> m, after |-> r.self, trained |-> outcome]

\* the bodies a TransactionRequest can carry; the values sit on and next to
\* the thresholds of the explanation; "refund" is not a generated category,
\* and a generated category is unknown to the encoder when the corpus lacks it
TransactionRequests ==
    UNION {[amount : {10000, 10001},
            transaction_type : {"transfer"},
            account_age_days : {29, 30},
            location_risk_score : {risk[1]},
            device_risk_score : {risk[2]},
            transaction_hour : {6, 23},
            past_transactions_24h : {20, 21}] : risk \in {<<700, 701>>, <<701, 700>>}}
    \cup
    [amount : {10001},
     transaction_type : {"withdrawal", "purchase", "refund"},
     account_age_days : {30},
     location_risk_score : {700},
     device_risk_score : {701},
     transaction_hour : {5, 22},
     past_transactions_24h : {20}]

\* POST /predict
predict_fraud(fail, transaction) ==
    \E i \in {initialize_system(fail)} :
    \E data \in {[kind |-> "dict", rows |-> <<transaction>>]} :
    \E r \in {predict(i.model, data)} :
       /\ Startup(i)
       /\ rng' = i.rng
       /\ pyrng' = i.pyrng
       /\ firstCorpus' = i.firstCorpus
       /\ lastCorpus' = i.lastCorpus
       /\ fraudLog' = i.fraudLog
       /\ IF i.raised # ""
          THEN /\ model' = i.model
               /\ http' = [NoHttp EXCEPT !.kind = "predict", !.code = 500,
                                         !.detail = "System initialization failed"]
               /\ call' = NoCall
          ELSE /\ model' = r.self
               /\ call' = CallOf(i.model, data, r, i.trainOutcome)
               /\ http' = IF r.out.ok
                          THEN [NoHttp EXCEPT !.kind = "predict", !.code = 200, !.body = r.out]
                          ELSE [NoHttp EXCEPT !.kind = "predict", !.code = 500,
                                              !.detail = "Error making prediction"]

\* GET /
root ==
    /\ http' = [NoHttp EXCEPT !.kind = "root", !.code = 200,
                              !.status = IF model.exists /\ model.is_trained
                                         THEN "operational" ELSE "initializing"]
    /\ call' = NoCall
    /\ initRun' = "not_called"
    /\ UNCHANGED <<rng, pyrng, data_generator, model, trainX, trainOutcome,
                   firstCorpus, lastCorpus, fraudLog, initFailed, initCompleted>>

\* rows a caller of model.predict can pass: a numeric value may be missing
\* and the row may still carry its ground-truth label
DirectRows ==
    [amount : {NaN, 50, 15000},
     transaction_type : {"transfer"},
     account_age_days : {400},
     location_risk_score : {100},
     device_risk_score : {200},
     transaction_hour : {14},
     past_transactions_24h : {5}]
    \cup
    [amount : {NaN, 50, 15000},
     transaction_type : {"transfer"},
     account_age_days : {400},
     location_risk_score : {100},
     device_risk_score : {200},
     transaction_hour : {14},
     past_transactions_24h : {5},
     is_anomaly : {1}]

\* the arguments of a direct call: a dict, or a DataFrame of one or two rows
\* with the same columns
DirectInputs ==
    {[kind |-> k, rows |-> <<r>>] : k \in {"dict", "frame"}, r \in DirectRows}
    \cup {[kind |-> "frame", rows |-> <<r1, r2>>] :
            r1, r2 \in {r \in DirectRows : "is_anomaly" \notin DOMAIN r}}

\* model.predict(data) called on the served model object
model_predict(data) ==
    /\ model.exists
    /\ \E r \in {predict(model, data)} :
          /\ model' = r.self
          /\ call' = CallOf(model, data, r, trainOutcome)
    /\ http' = NoHttp
    /\ initRun' = "not_called"
    /\ UNCHANGED <<rng, pyrng, data_generator, trainX, trainOutcome,
                   firstCorpus, lastCorpus, fraudLog, initFailed, initCompleted>>

Next ==
    \/ \E fail \in Failures : health_check(fail)
    \/ \E fail \in Failures : get_sample_transaction(fail)
    \/ \E fail \in Failures : \E t \in TransactionRequests : predict_fraud(fail, t)
    \/ root
    \/ \E d \in DirectInputs : model_predict(d)

Spec == Init /\ [][Next]_vars

(* ---------------- properties ---------------- *)
\* a PredictionResult came back from the call of model.predict of the last step
Returned == call.made /\ call.out.ok

\* the findings of an explanation: the text without its separators
Findings(text) == [k \in 1..((Len(text) + 1) \div 2) |-> text[2 * k - 1]]
WellJoined(text) ==
    /\ Len(text) % 2 = 1
    /\ \A k \in 1..Len(text) : (k % 2 = 0) <=> (text[k] = Separator)

\* C1: whatever decision-function value d predict computed, the risk level
\* of the result is HIGH for d < -0.1, MEDIUM for -0.1 <= d < 0 and LOW for
\* d >= 0, in every fitted state.
C1_RiskLevelBreakpoints ==
    Returned =>
        LET d == call.out.anomaly_score
        IN /\ (d < -100) => call.out.risk_level = "HIGH"
           /\ (-100 <= d /\ d < 0) => call.out.risk_level = "MEDIUM"
           /\ (d >= 0) => call.out.risk_level = "LOW"

\* a result whose decision-function value sits on the lower breakpoint
C1_Witness == Returned /\ call.out.anomaly_score = -100 /\ call.out.risk_level = "MEDIUM"

\* C2: in every result the label is FRAUD exactly when the reported
\* anomaly_score is negative, hence exactly when the risk level is HIGH or
\* MEDIUM; the body of a successful POST /predict is such a result.
C2_LabelMatchesScore ==
    /\ Returned =>
          /\ call.out.prediction \in {"FRAUD", "SAFE"}
          /\ (call.out.prediction = "FRAUD") <=> (call.out.anomaly_score < 0)
          /\ (call.out.prediction = "FRAUD") <=> (call.out.risk_level \in {"HIGH", "MEDIUM"})
    /\ (http.kind = "predict" /\ http.code = 200) =>
          /\ http.body = call.out
          /\ (http.body.prediction = "FRAUD") <=> (http.body.anomaly_score < 0)

\* a result whose decision-function value is exactly zero
C2_Witness == Returned /\ call.out.anomaly_score = 0 /\ call.out.prediction = "SAFE"

\* the six risk findings in the order of the specification, each with its condition
C3_Expected(row) ==
    SelectSeq(<<"High transaction amount", "High location risk score",
                "High device risk score", "Unusual transaction time",
                "High activity", "New account">>,
              LAMBDA f :
                CASE f = "High transaction amount" -> row.amount > 10000
                  [] f = "High location risk score" -> row.location_risk_score > 700
                  [] f = "High device risk score" -> row.device_risk_score > 700
                  [] f = "Unusual transaction time" ->
                         ~(6 <= row.transaction_hour /\ row.transaction_hour <= 22)
                  [] f = "High activity" -> row.past_transactions_24h > 20
                  [] OTHER -> row.account_age_days < 30)

\* C3: the explanation is a separator-joined list that starts with the
\* summary line; for FRAUD the other findings are the risk findings whose
\* conditions hold, in the fixed order; for SAFE the only other finding is
\* the low-risk note, present exactly when the value is above 0.1.
C3_ExplanationOrder ==
    Returned =>
        /\ WellJoined(call.out.explanation)
        /\ Findings(call.out.explanation) =
              IF call.out.prediction = "FRAUD"
              THEN <<"Transaction flagged as potentially fraudulent">>
                   \o C3_Expected(call.data.rows[1])
              ELSE <<"Transaction appears normal">>
                   \o (IF call.out.anomaly_score > 100
                       THEN <<"Low risk profile detected">> ELSE <<>>)

\* a FRAUD result that reports the activity and the account-age findings
C3_Witness ==
    /\ Returned
    /\ call.out.prediction = "FRAUD"
    /\ InSeq(call.out.explanation, "High activity")
    /\ InSeq(call.out.explanation, "New account")
    /\ InSeq(call.out.explanation, "Unusual transaction time")

\* some row of the argument carries a category the encoder does not know
UnknownCategory(c) ==
    \E k \in 1..Len(c.data.rows) :
        ~InSeq(c.before.label_encoder.classes, c.data.rows[k].transaction_type)

\* C4: no call of predict changes the fitted state; on a trained model a
\* record of an unseen category makes predict raise without a result, and
\* every valid request is answered afterwards as it was before the call.
C4_PredictKeepsFittedState ==
    call.made =>
        /\ Fitted(call.after) = Fitted(call.before)
        /\ model = call.after
        /\ (call.before.is_trained /\ UnknownCategory(call)) =>
              /\ ~call.out.ok
              /\ call.out.error = "unseen_label"
              /\ \A t \in TransactionRequests :
                    predict(model, [kind |-> "dict", rows |-> <<t>>]).out
                      = predict(call.before, [kind |-> "dict", rows |-> <<t>>]).out

\* predict has just failed on an unseen category on a trained model
C4_Witness ==
    /\ call.made
    /\ call.before.is_trained
    /\ UnknownCategory(call)
    /\ call.out.error = "unseen_label"

\* C5: predict on a model whose train has not run to its end (never called,
\* or raised before finishing) raises the not-trained error, returns no
\* result and leaves encoder, scaler and forest as they were.
C5_UntrainedRejected ==
    (call.made /\ call.trained # "returned") =>
        /\ ~call.out.ok
        /\ call.out.error = "not_trained"
        /\ Fitted(call.after) = Fitted(call.before)

\* C6: once a run of initialize_system has raised, and until a run has gone
\* to its end without error, /health does not answer healthy and /predict
\* does not answer with a result.
C6_FailedInitNotReady ==
    (initFailed /\ ~initCompleted) =>
        /\ ~(http.kind = "health" /\ (http.status = "healthy" \/ http.model_trained))
        /\ ~(http.kind = "predict" /\ http.code = 200)

\* C7: every corpus generated for the seed is the same ordered sequence of
\* labelled records, whatever generation or sampling happened before.
C7_SameSeedSameCorpus ==
    (firstCorpus # <<>> /\ lastCorpus # <<>>) => lastCorpus = firstCorpus

\* C8: at inference on a trained model, a missing numeric value reaches the
\* scaler replaced by the mean that feature had over the corpus at fit time.
C8_MissingFilledWithFittedMean ==
    (call.made /\ call.before.is_trained /\ call.X # NoX) =>
        \A k \in 1..Len(call.data.rows) : \A j \in 1..Len(call.X.cols) :
            (call.X.cols[j] \in DOMAIN call.data.rows[k] /\ IsNaN(call.data.rows[k][call.X.cols[j]]))
                => call.X.rows[k][j] = call.before.scaler.mean[j]

\* the seven features, in the order of the specification
C9_Seven ==
    <<"amount", "transaction_type_encoded", "account_age_days", "location_risk_score",
      "device_risk_score", "transaction_hour", "past_transactions_24h">>

C9_SevenOnly(X) ==
    /\ X.cols = C9_Seven
    /\ \A k \in 1..Len(X.rows) : Len(X.rows[k]) = 7

\* C9: the frame handed to the scaler, in train and in predict, has exactly
\* the seven features in order and no label column, also when the input
\* carries is_anomaly; a sample answered by /sample-transaction has no
\* is_anomaly field.
C9_LabelExcluded ==
    /\ (call.made /\ call.X # NoX) => C9_SevenOnly(call.X)
    /\ (trainX # NoX) => C9_SevenOnly(trainX)
    /\ (http.kind = "sample" /\ http.code = 200) =>
          /\ "is_anomaly" \notin DOMAIN http.sample
          /\ "amount" \in DOMAIN http.sample

\* predict scored a record that carried its ground-truth label, after a
\* sample was served from a trained system
C9_Witness ==
    /\ Returned
    /\ "is_anomaly" \in DOMAIN call.data.rows[1]
    /\ trainX # NoX

\* the values the burst override can take over every state of the stream
BurstOutcomes == {BurstPast(u) : u \in 0..(RngMod - 1)}

\* the burst records of the last corpus: their count taken from the log
\* matches the value stored in the record
BurstLogs == {k \in 1..Len(fraudLog) : fraudLog[k].fraud_type = "burst"}
LoggedValueStored(k) ==
    \E r \in 1..Len(lastCorpus) :
        /\ lastCorpus[r].transaction_id = <<"FRD", k>>
        /\ lastCorpus[r].past_transactions_24h = fraudLog[k].past_transactions_24h

\* C10 as stated: a burst record has an integer count in [20,50], every
\* integer from 20 through 50 can come out, and the Poisson default is not
\* applied to it.
C10_BurstRange20To50 ==
    \A k \in BurstLogs :
        /\ fraudLog[k].past_transactions_24h \in 20..50
        /\ ~InSeq(fraudLog[k].calls, "poisson")
        /\ BurstOutcomes = 20..50

\* C10 amended: a burst record has an integer count in [20,49], every
\* integer from 20 through 49 can come out, 50 cannot, and the Poisson
\* default is not applied to it.
C10_BurstRange20To49 ==
    /\ BurstOutcomes = 20..49
    /\ \A k \in BurstLogs :
          /\ fraudLog[k].past_transactions_24h \in 20..49
          /\ ~InSeq(fraudLog[k].calls, "poisson")
          /\ InSeq(fraudLog[k].calls, "randint")
          /\ LoggedValueStored(k)

\* a corpus with a burst record
C10_Witness == \E k \in BurstLogs : fraudLog[k].past_transactions_24h >= 20

\* C11: once a run of initialize_system has completed successfully, no later
\* step executes train or constructs a generator or a model again, and every
\* later step (health, sample-transaction, predict, root, or a direct call of
\* model.predict) leaves the global model and data_generator references and
\* the model's encoder, scaler, forest, feature columns and is_trained flag
\* as they were; a sample-transaction request that regenerates a corpus
\* changes only the generator's output and the random streams.
C11_FittedStateSetOnce ==
    [][initCompleted =>
          /\ initRun' \in {"not_called", "skipped"}
          /\ data_generator' = data_generator
          /\ model'.exists = model.exists
          /\ Fitted(model') = Fitted(model)
          /\ trainX' = trainX
          /\ trainOutcome' = trainOutcome]_vars

\* after a completed initialisation a later sample-transaction request took
\* the early return, regenerated a corpus that differs from the training
\* corpus, and the served model is still the trained one
C11_Witness ==
    /\ initCompleted
    /\ initRun = "skipped"
    /\ http.kind = "sample" /\ http.code = 200
    /\ lastCorpus # firstCorpus
    /\ model.exists /\ model.is_trained /\ data_generator
    /\ trainOutcome = "returned"

====
